---- MODULE Spec2Model ----
(***************************************************************************)
(* Model of examples/rapids-azureml-hpo/notebook.ipynb: a linear script    *)
(* that drives the AzureML SDK (workspace client, compute cluster,         *)
(* environment, training job, hyperparameter sweep, download, delete),     *)
(* together with the workspace state its calls read and change and the     *)
(* platform's asynchronous progress of the jobs it submits.                *)
(*                                                                         *)
(* max_features is a real number in the notebook (0.3, 0.2 .. 1.0); the    *)
(* model keeps it in tenths (3, 2 .. 10).                                  *)
(***************************************************************************)
EXTENDS Integers, Sequences, FiniteSets, TLC

\* ------------------------------------------------------------------ bounds
\* number of times the notebook is run top to bottom against the workspace
MaxRuns == 2
\* highest version of 'rapids-mlflow' the workspace may hold before run 1
MaxPriorEnv == 1
\* max_instances values of a 'rapids-cluster' that exists before run 1
PriorMaxInstances == {5, 10}
\* values the platform's random sampler is probed with, per swept input
ProbeValues ==
    [n_estimators |-> {49, 50, 499, 500},
     max_depth    |-> {4, 5, 18, 19},
     max_features |-> {1, 10, 11}]

\* ------------------------------------------------------- notebook literals
gpu_compute_target == "rapids-cluster"
OtherCluster == "other-cluster"
ClusterNames == {gpu_compute_target, OtherCluster}

datastore_name == "workspaceartifactstore"
dataset == "airline_20000000.parquet"
DataUri == <<"azureml://subscriptions", "workspaces", "datastores", datastore_name, "paths", dataset>>

Absent == [exists |-> FALSE, name |-> "none", size |-> "none",
           max_instances |-> 0, idle_time_before_scale_down |-> 0]

\* AmlCompute(name="rapids-cluster", type="amlcompute", size=..., max_instances=5, ...)
AmlCompute ==
    [exists |-> TRUE, name |-> "rapids-cluster", size |-> "STANDARD_NC12S_V3",
     max_instances |-> 5, idle_time_before_scale_down |-> 300]

\* the markdown above the cell: "This notebook will use 10 nodes"
DocumentedNodes == 10

\* a cluster found in the workspace before the first run
PriorCluster(n, m) == [AmlCompute EXCEPT !.name = n, !.max_instances = m]

\* "rapids-mlflow:1" parsed as name:version
EnvRef == [name |-> "rapids-mlflow", version |-> 1]

Lit(v) == [kind |-> "literal", value |-> v]
Choice(vs) == [kind |-> "choice", values |-> vs]
Uniform(lo, hi) == [kind |-> "uniform", min_value |-> lo, max_value |-> hi]

\* Python range(a, b): a, a+1, ..., b-1
range_Inclusive(a, b) == a .. b
range(a, b) == a .. (b - 1)

NoJob == [defined |-> FALSE]

\* command(environment=..., inputs={...}, command=..., compute="rapids-cluster")
command(uri) ==
    [defined |-> TRUE,
     environment |-> EnvRef,
     experiment_name |-> "test_rapids_aml_cluster",
     inputs |-> [data_dir     |-> Lit(uri),
                 n_bins       |-> Lit(32),
                 compute      |-> Lit("single-GPU"),
                 cv_folds     |-> Lit(5),
                 n_estimators |-> Lit(100),
                 max_depth    |-> Lit(6),
                 max_features |-> Lit(3)],
     command |-> "python train_rapids.py",
     compute |-> "rapids-cluster"]

\* command_job(**kwargs): a new node, the given inputs replaced
CallJob(job, overrides) ==
    [job EXCEPT !.inputs = [k \in DOMAIN job.inputs |->
        IF k \in DOMAIN overrides THEN overrides[k] ELSE job.inputs[k]]]

SweepOverrides ==
    [n_estimators |-> Choice(range(50, 500)),
     max_depth    |-> Choice(range(5, 19)),
     max_features |-> Uniform(2, 10)]

\* sweep_job.set_limits(max_total_trials=10, max_concurrent_trials=2, ...)
set_limits_OneMore ==
    [max_total_trials |-> 10, max_concurrent_trials |-> 3,
     timeout |-> 18000, trial_timeout |-> 3600]
set_limits ==
    [max_total_trials |-> 10, max_concurrent_trials |-> 2,
     timeout |-> 18000, trial_timeout |-> 3600]

\* command_job_for_sweep.sweep(compute=..., sampling_algorithm=..., ...) + set_limits
sweep(trialJob) ==
    [defined |-> TRUE,
     trial |-> trialJob,
     compute |-> "rapids-cluster",
     sampling_algorithm |-> "random",
     primary_metric |-> "Accuracy",
     goal |-> "Maximize",
     limits |-> set_limits]

\* --------------------------------------------------------------- the script
Steps == <<"workspace", "data_uri", "cluster", "environment", "train",
           "sweep_config", "sweep_submit", "monitor", "download", "delete">>

StepIndex(s) == CHOOSE i \in 1..Len(Steps) : Steps[i] = s

NextStep_Skip(s) ==
    IF StepIndex(s) + 1 >= Len(Steps) THEN "done" ELSE Steps[StepIndex(s) + 2]
NextStep(s) ==
    IF StepIndex(s) = Len(Steps) THEN "done" ELSE Steps[StepIndex(s) + 1]

\* an exception that no except clause catches ends the run at that step
OnException_Swallowed(s) == NextStep(s)
OnException(s) == "failed"

\* except MlException: catches every MlException, whatever its reason
IsMlException(o) == o \in {"not_found", "ml_other"}

TerminalStatuses == {"Completed", "Failed", "Canceled"}

VARIABLES
    pc,                 \* the step the run is about to execute, "done" or "failed"
    run,                \* number of the current top-to-bottom run
    calls,              \* platform calls issued by the current run, in order
    lookup,             \* outcome of compute.get in the current run
    failedAt,           \* step whose call raised an uncaught exception
    clusters,           \* workspace: compute clusters by name
    envLatest,          \* workspace: latest registered version of rapids-mlflow
    envRegistered,      \* version environments.create_or_update returned this run
    data_uri,           \* kernel variable
    command_job,        \* kernel variable
    sweep_job,          \* kernel variable
    returned_job,       \* the submitted training job, as the platform holds it
    returned_sweep_job, \* the submitted sweep job, as the platform holds it
    lastTrial,          \* the trial the platform started most recently
    firstExec           \* rapids-cluster as the get-or-create step left it, since the last delete

vars == <<pc, run, calls, lookup, failedAt, clusters, envLatest, envRegistered,
          data_uri, command_job, sweep_job, returned_job, returned_sweep_job,
          lastTrial, firstExec>>

NotSubmitted == [status |-> "NotSubmitted"]
NoTrial == [started |-> FALSE]
NoSnapshot == [taken |-> FALSE]

kernel == <<data_uri, command_job, sweep_job>>
platformJobs == <<returned_job, returned_sweep_job, lastTrial>>
workspace == <<clusters, envLatest>>

Init ==
    /\ pc = "workspace"
    /\ run = 1
    /\ calls = <<>>
    /\ lookup = "none"
    /\ failedAt = "none"
    /\ \E own \in {Absent} \cup {PriorCluster(gpu_compute_target, m) : m \in PriorMaxInstances} :
            clusters = [n \in ClusterNames |->
                IF n = gpu_compute_target THEN own ELSE PriorCluster(OtherCluster, 5)]
    /\ envLatest \in 0..MaxPriorEnv
    /\ envRegistered = 0
    /\ data_uri = <<>>
    /\ command_job = NoJob
    /\ sweep_job = NoJob
    /\ returned_job = NotSubmitted
    /\ returned_sweep_job = NotSubmitted
    /\ lastTrial = NoTrial
    /\ firstExec = NoSnapshot

\* the run goes on to the next cell
Advance(s, cs) ==
    /\ pc' = NextStep(s)
    /\ calls' = calls \o cs
    /\ failedAt' = failedAt

\* the call of step s raised and nothing caught it
Raise(s, cs) ==
    /\ pc' = OnException(s)
    /\ calls' = calls \o cs
    /\ failedAt' = s

\* ml_client = MLClient(credential=..., ...)
InitializeWorkspace ==
    /\ pc = "workspace"
    /\ Advance("workspace", <<"MLClient">>)
    /\ UNCHANGED <<run, lookup, workspace, envRegistered, kernel, platformJobs, firstExec>>

\* data_uri = f"azureml://subscriptions/.../datastores/{datastore_name}/paths/{dataset}"
AccessData ==
    /\ pc = "data_uri"
    /\ data_uri' = DataUri
    /\ Advance("data_uri", <<"data_uri">>)
    /\ UNCHANGED <<run, lookup, workspace, envRegistered, command_job, sweep_job,
                   platformJobs, firstExec>>

LookupOutcomes ==
    IF clusters[gpu_compute_target].exists
    THEN {"found", "ml_other", "other_exc"}
    ELSE {"not_found", "ml_other", "other_exc"}

Snapshot(c) ==
    IF firstExec.taken THEN firstExec ELSE [taken |-> TRUE, cluster |-> c, run |-> run]

\* try: compute.get(gpu_compute_target)  except MlException: begin_create_or_update(...)
CreateAMLCompute ==
    /\ pc = "cluster"
    /\ \E o \in LookupOutcomes :
        /\ lookup' = o
        /\ \/ /\ o = "found"
              /\ Advance("cluster", <<"compute.get">>)
              /\ firstExec' = Snapshot(clusters[gpu_compute_target])
              /\ UNCHANGED clusters
           \/ /\ IsMlException(o)
              /\ clusters' = [clusters EXCEPT ![AmlCompute.name] = AmlCompute]
              /\ Advance("cluster", <<"compute.get", "compute.begin_create_or_update">>)
              /\ firstExec' = Snapshot(AmlCompute)
           \/ /\ IsMlException(o)
              /\ Raise("cluster", <<"compute.get", "compute.begin_create_or_update">>)
              /\ UNCHANGED <<clusters, firstExec>>
           \/ /\ o = "other_exc"
              /\ Raise("cluster", <<"compute.get">>)
              /\ UNCHANGED <<clusters, firstExec>>
    /\ UNCHANGED <<run, envLatest, envRegistered, kernel, platformJobs>>

\* ml_client.environments.create_or_update(env_docker_image)
SetupEnvironment ==
    /\ pc = "environment"
    /\ \/ /\ envLatest' = envLatest + 1
          /\ envRegistered' = envLatest + 1
          /\ Advance("environment", <<"environments.create_or_update">>)
       \/ /\ Raise("environment", <<"environments.create_or_update">>)
          /\ UNCHANGED <<envLatest, envRegistered>>
    /\ UNCHANGED <<run, lookup, clusters, kernel, platformJobs, firstExec>>

\* command_job = command(...); returned_job = ml_client.jobs.create_or_update(command_job)
SubmitTrainingJob ==
    /\ pc = "train"
    /\ command_job' = command(data_uri)
    /\ \/ /\ returned_job' = [status |-> "Queued",
                             environment |-> command_job'.environment,
                             compute |-> command_job'.compute]
          /\ Advance("train", <<"jobs.create_or_update">>)
       \/ /\ Raise("train", <<"jobs.create_or_update">>)
          /\ UNCHANGED returned_job
    /\ UNCHANGED <<run, lookup, workspace, envRegistered, data_uri, sweep_job,
                   returned_sweep_job, lastTrial, firstExec>>

\* command_job_for_sweep = command_job(...); sweep_job = command_job_for_sweep.sweep(...)
ConfigureSweep ==
    /\ pc = "sweep_config"
    /\ sweep_job' = sweep(CallJob(command_job, SweepOverrides))
    /\ Advance("sweep_config", <<"sweep">>)
    /\ UNCHANGED <<run, lookup, workspace, envRegistered, data_uri, command_job,
                   platformJobs, firstExec>>

\* returned_sweep_job = ml_client.create_or_update(sweep_job)
SubmitSweep ==
    /\ pc = "sweep_submit"
    /\ \/ /\ returned_sweep_job' = [status |-> "Queued", started |-> 0, running |-> 0,
                                   job |-> sweep_job]
          /\ Advance("sweep_submit", <<"create_or_update">>)
       \/ /\ Raise("sweep_submit", <<"create_or_update">>)
          /\ UNCHANGED returned_sweep_job
    /\ UNCHANGED <<run, lookup, workspace, envRegistered, kernel, returned_job,
                   lastTrial, firstExec>>

\* aml_url = returned_sweep_job.studio_url; print(...)
MonitorSweep ==
    /\ pc = "monitor"
    /\ Advance("monitor", <<"studio_url">>)
    /\ UNCHANGED <<run, lookup, workspace, envRegistered, kernel, platformJobs, firstExec>>

\* ml_client.jobs.download(returned_sweep_job.name, output_name="model")
DownloadBestModel ==
    /\ pc = "download"
    /\ \/ /\ returned_sweep_job.status \in TerminalStatuses
          /\ Advance("download", <<"jobs.download">>)
       \/ Raise("download", <<"jobs.download">>)
    /\ UNCHANGED <<run, lookup, workspace, envRegistered, kernel, platformJobs, firstExec>>

DeleteTarget_Other == OtherCluster
DeleteTarget == gpu_compute_target

\* ml_client.compute.begin_delete(gpu_compute_target).wait()
DeleteCluster ==
    /\ pc = "delete"
    /\ \/ /\ clusters' = [clusters EXCEPT ![DeleteTarget] = Absent]
          /\ firstExec' = IF DeleteTarget = gpu_compute_target THEN NoSnapshot ELSE firstExec
          /\ Advance("delete", <<"compute.begin_delete">>)
       \/ /\ Raise("delete", <<"compute.begin_delete">>)
          /\ UNCHANGED <<clusters, firstExec>>
    /\ UNCHANGED <<run, lookup, envLatest, envRegistered, kernel, platformJobs>>

\* the notebook is run again from the top in a fresh kernel, same workspace
Rerun ==
    /\ pc \in {"done", "failed"}
    /\ run < MaxRuns
    /\ run' = run + 1
    /\ pc' = "workspace"
    /\ calls' = <<>>
    /\ lookup' = "none"
    /\ failedAt' = "none"
    /\ envRegistered' = 0
    /\ data_uri' = <<>>
    /\ command_job' = NoJob
    /\ sweep_job' = NoJob
    /\ returned_job' = NotSubmitted
    /\ returned_sweep_job' = NotSubmitted
    /\ lastTrial' = NoTrial
    /\ UNCHANGED <<workspace, firstExec>>

script == <<pc, run, calls, lookup, failedAt, envRegistered, kernel, firstExec>>

\* ------------------------------------------------- the platform's own steps
ComputeAvailable(name) == clusters[name].exists

\* the training job is picked up by its compute target and ends
TrainingJobProgress ==
    /\ \/ /\ returned_job.status = "Queued"
          /\ ComputeAvailable(returned_job.compute)
          /\ returned_job' = [returned_job EXCEPT !.status = "Running"]
       \/ /\ returned_job.status = "Running"
          /\ \E s \in {"Completed", "Failed"} :
                returned_job' = [returned_job EXCEPT !.status = s]
    /\ UNCHANGED <<script, workspace, returned_sweep_job, lastTrial>>

\* the value the sampler draws for a swept input
Samples(k, dist) ==
    IF dist.kind = "choice" THEN dist.values \cap ProbeValues[k]
    ELSE {v \in ProbeValues[k] : dist.min_value <= v /\ v <= dist.max_value}

\* the scheduler starts a trial of the sweep within the limits it was handed
StartTrial ==
    /\ returned_sweep_job.status \in {"Queued", "Running"}
    /\ ComputeAvailable(returned_sweep_job.job.compute)
    /\ returned_sweep_job.started < returned_sweep_job.job.limits.max_total_trials
    /\ returned_sweep_job.running < returned_sweep_job.job.limits.max_concurrent_trials
    /\ LET t == returned_sweep_job.job.trial IN
       \E ne \in Samples("n_estimators", t.inputs.n_estimators),
          md \in Samples("max_depth", t.inputs.max_depth),
          mf \in Samples("max_features", t.inputs.max_features) :
            lastTrial' = [started |-> TRUE,
                          environment |-> t.environment,
                          command |-> t.command,
                          compute |-> returned_sweep_job.job.compute,
                          inputs |-> [data_dir     |-> t.inputs.data_dir.value,
                                      n_bins       |-> t.inputs.n_bins.value,
                                      compute      |-> t.inputs.compute.value,
                                      cv_folds     |-> t.inputs.cv_folds.value,
                                      n_estimators |-> ne,
                                      max_depth    |-> md,
                                      max_features |-> mf]]
    /\ returned_sweep_job' = [returned_sweep_job EXCEPT
            !.status = "Running", !.started = @ + 1, !.running = @ + 1]
    /\ UNCHANGED <<script, workspace, returned_job>>

\* a running trial ends
FinishTrial ==
    /\ returned_sweep_job.status = "Running"
    /\ returned_sweep_job.running > 0
    /\ returned_sweep_job' = [returned_sweep_job EXCEPT !.running = @ - 1]
    /\ UNCHANGED <<script, workspace, returned_job, lastTrial>>

\* the sweep ends: all trials done, or it failed / was cancelled (timeout)
FinishSweep ==
    /\ returned_sweep_job.status = "Running"
    /\ \/ /\ returned_sweep_job.running = 0
          /\ returned_sweep_job.started = returned_sweep_job.job.limits.max_total_trials
          /\ returned_sweep_job' = [returned_sweep_job EXCEPT !.status = "Completed"]
       \/ \E s \in {"Failed", "Canceled"} :
             returned_sweep_job' = [returned_sweep_job EXCEPT !.status = s, !.running = 0]
    /\ UNCHANGED <<script, workspace, returned_job, lastTrial>>

Next ==
    \/ InitializeWorkspace
    \/ AccessData
    \/ CreateAMLCompute
    \/ SetupEnvironment
    \/ SubmitTrainingJob
    \/ ConfigureSweep
    \/ SubmitSweep
    \/ MonitorSweep
    \/ DownloadBestModel
    \/ DeleteCluster
    \/ Rerun
    \/ TrainingJobProgress
    \/ StartTrial
    \/ FinishTrial
    \/ FinishSweep

Spec == Init /\ [][Next]_vars


\* ------------------------------------------------------------------ claims
Issued(c) == \E i \in 1..Len(calls) : calls[i] = c

CallOrder ==
    <<"MLClient", "data_uri", "compute.get", "compute.begin_create_or_update",
      "environments.create_or_update", "jobs.create_or_update", "sweep",
      "create_or_update", "studio_url", "jobs.download", "compute.begin_delete">>

Rank(c) == CHOOSE i \in 1..Len(CallOrder) : CallOrder[i] = c

\* the platform calls a step of the flow can issue
StepCalls(s) ==
    CASE s = "cluster" -> {"compute.get", "compute.begin_create_or_update"}
      [] s = "environment" -> {"environments.create_or_update"}
      [] s = "train" -> {"jobs.create_or_update"}
      [] s = "sweep_submit" -> {"create_or_update"}
      [] s = "download" -> {"jobs.download"}
      [] s = "delete" -> {"compute.begin_delete"}
      [] OTHER -> {}

\* C1: a create request for rapids-cluster is issued exactly when the lookup
\* failed because the cluster was not found: not when it was found, and not
\* when the lookup failed for another reason.
C1_CreateExactlyWhenNotFound ==
    Issued("compute.begin_create_or_update") <=> lookup = "not_found"

\* C2: within a run the platform calls are issued in the fixed order of the
\* flow, each at most once, and a call is issued only when every earlier
\* step of the flow (the conditional create apart) has been issued before it.
C2_CallsInFixedOrder ==
    /\ \A i, j \in 1..Len(calls) : i < j => Rank(calls[i]) < Rank(calls[j])
    /\ \A i \in 1..Len(calls) : \A r \in 1..(Rank(calls[i]) - 1) :
          CallOrder[r] # "compute.begin_create_or_update" =>
             \E k \in 1..(i - 1) : calls[k] = CallOrder[r]

C2_Witness ==
    /\ pc = "done"
    /\ Len(calls) = Len(CallOrder)

\* C3: when the get-or-create step is executed again with no delete since an
\* earlier execution, the second execution issues no create/update request
\* and rapids-cluster is still configured as the first execution left it.
C3_SecondExecutionChangesNothing ==
    (firstExec.taken /\ firstExec.run < run /\ lookup # "none") =>
        /\ ~Issued("compute.begin_create_or_update")
        /\ clusters[gpu_compute_target] = firstExec.cluster

\* C4: the download of the sweep's model output is issued only when the
\* sweep job has reached a terminal state.
C4_DownloadOnlyAfterSweepTerminal ==
    [][(pc = "download" /\ pc' # "download") =>
          returned_sweep_job.status \in TerminalStatuses]_vars

\* C5: a run whose every step completed without an exception ends with no
\* cluster named rapids-cluster (the name the get-or-create step looked up)
\* in the workspace, whether the run created the cluster or reused it.
C5_CompletedRunLeavesNoCluster ==
    pc = "done" => ~clusters[gpu_compute_target].exists

C5_Witness ==
    /\ pc = "done"
    /\ lookup = "found"
    /\ Issued("compute.begin_delete")

\* C6: at most 2 trials of the sweep run at the same time and at most 10 are
\* ever started; no step of the notebook itself starts a trial.
C6_TrialLimits ==
    /\ [](returned_sweep_job.status # "NotSubmitted" =>
            /\ returned_sweep_job.running <= 2
            /\ returned_sweep_job.started <= 10)
    /\ [][(pc' # pc /\ returned_sweep_job.status # "NotSubmitted"
                    /\ returned_sweep_job'.status # "NotSubmitted") =>
            /\ returned_sweep_job'.started = returned_sweep_job.started
            /\ returned_sweep_job'.running = returned_sweep_job.running]_vars

C6_Witness ==
    /\ returned_sweep_job.status = "Running"
    /\ returned_sweep_job.running = 2
    /\ returned_sweep_job.started = 10

\* C7: the cluster the get-or-create step creates may scale to the 10 nodes
\* the notebook says it uses (max_instances = 10).
C7_CreatedClusterHasTenNodes ==
    (Issued("compute.begin_create_or_update") /\ failedAt # "cluster"
        /\ clusters[gpu_compute_target].exists) =>
            clusters[gpu_compute_target].max_instances = DocumentedNodes

\* C8: an exception raised by a platform call stops the run at that step:
\* the failing call is the last call of the run, the delete step is not run,
\* no call is issued afterwards and the clusters stay as they were.
C8_UncaughtExceptionStopsRun ==
    /\ [](failedAt # "none" =>
            /\ pc = "failed"
            /\ Len(calls) > 0
            /\ calls[Len(calls)] \in StepCalls(failedAt)
            /\ (failedAt # "delete" => ~Issued("compute.begin_delete")))
    /\ [][(failedAt # "none" /\ run' = run) =>
            /\ pc' = "failed"
            /\ failedAt' = failedAt
            /\ calls' = calls
            /\ clusters' = clusters]_vars

C8_Witness ==
    /\ pc = "failed"
    /\ failedAt = "environment"
    /\ clusters[gpu_compute_target].exists
    /\ returned_job.status = "NotSubmitted"

\* C9: the training job and every trial run in the environment version that
\* environments.create_or_update registered in the same run.
C9_JobUsesEnvironmentOfThisRun ==
    /\ returned_job.status # "NotSubmitted" =>
            returned_job.environment.version = envRegistered
    /\ lastTrial.started => lastTrial.environment.version = envRegistered

\* C10: every trial has n_estimators in 50..499 and max_depth in 5..18 and
\* otherwise the inputs, command line, environment and compute target of the
\* base training job; configuring the sweep leaves command_job's own inputs
\* (n_estimators=100, max_depth=6, max_features=0.3) as they were.
C10_SweepVariesOnlyItsThreeInputs ==
    /\ lastTrial.started =>
          /\ lastTrial.inputs.n_estimators \in 50..499
          /\ lastTrial.inputs.max_depth \in 5..18
          /\ lastTrial.inputs.data_dir = command_job.inputs.data_dir.value
          /\ lastTrial.inputs.n_bins = 32
          /\ lastTrial.inputs.compute = "single-GPU"
          /\ lastTrial.inputs.cv_folds = 5
          /\ lastTrial.command = command_job.command
          /\ lastTrial.environment = command_job.environment
          /\ lastTrial.compute = "rapids-cluster"
          /\ lastTrial.compute = command_job.compute
    /\ sweep_job.defined =>
          /\ command_job.inputs.n_estimators = Lit(100)
          /\ command_job.inputs.max_depth = Lit(6)
          /\ command_job.inputs.max_features = Lit(3)

C10_Witness ==
    /\ lastTrial.started
    /\ lastTrial.inputs.n_estimators = 499
    /\ lastTrial.inputs.max_depth = 18

\* C11: rapids-cluster exists for the whole lifetime of every job submitted
\* to it: no training job and no sweep is queued or running while its compute
\* target is absent from the workspace, and the delete is issued only when
\* the training job and the sweep have reached a terminal state.
C11_ClusterOutlivesItsJobs ==
    /\ returned_job.status \in {"Queued", "Running"} =>
            clusters[returned_job.compute].exists
    /\ returned_sweep_job.status \in {"Queued", "Running"} =>
            clusters[returned_sweep_job.job.compute].exists
    /\ Issued("compute.begin_delete") =>
            /\ returned_job.status \in TerminalStatuses
            /\ returned_sweep_job.status \in TerminalStatuses

====
